---- MODULE Spec2Model ----
(***************************************************************************)
(* State-machine model of the CAN controller driver `Can` (src/can/can.rs) *)
(* together with the bus controller hardware it drives.  One software      *)
(* caller owns the handle and runs `new`, `add_filter`, `transmit`,        *)
(* `transmit_status` and `try_recv`; every register access of these        *)
(* functions is one step, so that the hardware (init acknowledge, mailbox  *)
(* completion, frame arrival) interleaves between any two accesses.        *)
(***************************************************************************)
EXTENDS Integers, Sequences, FiniteSets, TLC

VARIABLES
    pc,                 \* position of the caller inside the driver
    clock,              \* T::frequency().0, argument of calc_can_timings
    bitrate,            \* argument `bitrate` of Can::new
    mode,               \* argument `mode` of Can::new
    fifo,               \* Can.fifo
    last_mailbox_used,  \* Can.last_mailbox_used
    bit_timings,        \* local `bit_timings` of Can::new
    inrq,               \* CTLR.INRQ  (init request)
    inak,               \* STATR.INAK (init acknowledge)
    btimr,              \* BTIMR (bit timing + operating mode)
    finit,              \* FCTLR.FINIT
    bank,               \* per filter bank: FSC, FBM, FFA, FACT bits
    fr,                 \* filter registers CAN_FxR0 / CAN_FxR1
    mailbox,            \* the transmit mailboxes
    rfifo,              \* the two receive FIFOs (head first)
    arg,                \* argument of the call in progress (frame or filter)
    loc,                \* locals of the call in progress
    ret,                \* what the last finished call returned
    ops,                \* number of driver calls started so far
    arrivals,           \* number of frames the bus delivered so far
    hist                \* history of the call in progress / of the handle

vars == <<pc, clock, bitrate, mode, fifo, last_mailbox_used, bit_timings,
          inrq, inak, btimr, finit, bank, fr, mailbox, rfifo, arg, loc, ret,
          ops, arrivals, hist>>

hw_vars == <<inrq, inak, btimr, finit, bank, fr, mailbox, rfifo>>
arg_vars == <<clock, bitrate, mode, fifo>>

-----------------------------------------------------------------------------
(* Bounds of the model *)

\* driver calls (add_filter, transmit, transmit_status, try_recv) per behaviour
MaxOps == 4
\* frames the bus delivers per behaviour
MaxArrivals == 4
\* highest filter bank index the caller addresses
MaxBank == 0

(* Program constants *)

\* messages a receive FIFO holds before it overruns
FifoDepth == 3

\* usize::MAX; the largest 32-bit signed integer stands for it
USIZE_MAX == 2147483647
\* highest valid transmit mailbox index
LastMailbox == 2
\* highest standard identifier, StandardId::MAX
MaxStdId == 2047

Mailboxes == 0..LastMailbox
Banks == 0..MaxBank
Fifos == {0, 1}
\* Option::None of an index, a count or an identifier
None == -1

Min(a, b) == IF a <= b THEN a ELSE b

-----------------------------------------------------------------------------
(* Values *)

\* CanMode, the operating modes requested at construction
CanMode == {"Normal", "Loopback"}

\* peripheral clocks and bitrates handed to Can::new
Clocks == {8000000}
Bitrates == {1, 500000}

\* a 32-bit register word as its four bytes, least significant first
Word(a, b, c, d) == <<a, b, c, d>>

\* CanFrame: identifier, data length code and the 8 payload bytes
CanFrame(id, dlc, data) == [id |-> id, dlc |-> dlc, data |-> data]

\* frames the caller transmits; the lower identifier has the higher priority
TxFrames ==
    { CanFrame(1, 2, <<17, 34, 0, 0, 0, 0, 0, 0>>),
      CanFrame(MaxStdId, 8, <<1, 2, 3, 4, 5, 6, 7, 8>>) }

\* raw receive-mailbox contents: RXMIR.STID, RXMDTR.DLC, RXMDLR, RXMDHR
RawMsg(stid, dlc, dlr, dhr) == [stid |-> stid, dlc |-> dlc, dlr |-> dlr, dhr |-> dhr]

RawMsgs ==
    { RawMsg(1, 2, Word(17, 34, 0, 0), Word(0, 0, 0, 0)),
      RawMsg(MaxStdId, 8, Word(1, 2, 3, 4), Word(5, 6, 7, 8)),
      RawMsg(291, 9, Word(255, 254, 253, 252), Word(251, 250, 249, 248)) }

\* frames sent by another node: both ends of the identifier range, payload
\* lengths on both sides of the boundary between the two data words
RoundTripFrames ==
    { CanFrame(x, d, [i \in 1..8 |-> IF i <= d THEN base + i ELSE 0]) :
        x \in {0, MaxStdId}, d \in {0, 1, 4, 5, 8}, base \in {0, 247} }

\* the payload of a frame: the first dlc bytes of its data
payload(frame) == SubSeq(frame.data, 1, frame.dlc)

\* the receive mailbox registers holding a frame: STID, DLC, RXMDLR = bytes
\* 0..3 and RXMDHR = bytes 4..7
Encode(frame) ==
    RawMsg(frame.id, frame.dlc,
           SubSeq(frame.data, 1, 4), SubSeq(frame.data, 5, 8))

\* CanFilter<BIT, MODE>: bank, bit mode, match mode, id value, id mask
CanFilter(b, bit, m, v, k) ==
    [bank |-> b, bit_mode |-> bit, mode |-> m, id_value |-> v, id_mask |-> k]

Filters ==
    { CanFilter(b, bit, m, 291, 2047) :
        b \in Banks, bit \in {"Bit32", "Bit16"}, m \in {"Mask", "List"} }

\* the value a call returns: operation, variant and the frame carried, if any
Ret(op, val, frame) == [op |-> op, val |-> val, frame |-> frame]

\* Option::None of a frame, of a filter, of a register word
NoFrame == CanFrame(None, 0, <<>>)
NoFilter == CanFilter(None, "Bit32", "Mask", 0, 0)
NoWord == <<>>
NoArg == [frame |-> NoFrame, filter |-> NoFilter]

LocInit == [mailbox_num |-> None, dlc |-> None, raw_id |-> None,
            id |-> None, dhr |-> NoWord, dlr |-> NoWord]

\* released: FIFO release commands issued by the try_recv call in progress
\* tsr_read: mailbox whose status the last transmit_status read
\* last_written: mailbox the most recent successful transmit wrote
\* filter_done: some add_filter call has returned
\* retried: the transmit call is a retry of a frame refused with WouldBlock
\* expected: the messages the hardware placed in the bound FIFO that try_recv
\*   has not returned yet, oldest first; dropped once the FIFO has overrun
\* overrun: the bound FIFO has lost a message
HistInit == [released |-> 0, tsr_read |-> None, last_written |-> None,
             filter_done |-> FALSE, retried |-> FALSE,
             expected |-> <<>>, overrun |-> FALSE]

EmptyMailbox(status) == [tme |-> TRUE, frame |-> NoFrame, status |-> status]
ResetBank == [fsc |-> FALSE, fbm |-> FALSE, ffa |-> FALSE, fact |-> FALSE]

-----------------------------------------------------------------------------
(* util::calc_can_timings: the bit-timing calculator *)

\* hardware ranges of the timing fields
MaxPrescaler == 1024
MaxSeg1 == 16
MaxSeg2 == 8
MaxSjw == 4

BitTiming(p, s1, s2) ==
    [prescaler |-> p, seg1 |-> s1, seg2 |-> s2, sjw |-> Min(s2, MaxSjw)]
NoTimings == [prescaler |-> 0, seg1 |-> 0, seg2 |-> 0, sjw |-> 0]

Quanta(t) == 1 + t.seg1 + t.seg2

\* sample point (1+seg1)/(1+seg1+seg2) within 75% .. 87.5%
InBand(t) ==
    /\ 3 * Quanta(t) <= 4 * (1 + t.seg1)
    /\ 8 * (1 + t.seg1) <= 7 * Quanta(t)

\* every exact solution clock == bitrate * prescaler * (1 + seg1 + seg2)
TimingCandidates(clk, rate) ==
    IF clk % rate # 0 THEN {}
    ELSE LET ratio == clk \div rate
         IN { t \in { BitTiming(ratio \div (1 + s1 + s2), s1, s2) :
                        s1 \in 1..MaxSeg1, s2 \in 1..MaxSeg2 } :
                /\ ratio % Quanta(t) = 0
                /\ t.prescaler \in 1..MaxPrescaler
                /\ InBand(t) }

\* distance of the sample point below the 87.5% target, as a fraction n/d
Dist(t) == [n |-> 7 * Quanta(t) - 8 * (1 + t.seg1), d |-> 8 * Quanta(t)]
Closer(a, b) == Dist(a).n * Dist(b).d < Dist(b).n * Dist(a).d
Tied(a, b) == Dist(a).n * Dist(b).d = Dist(b).n * Dist(a).d

\* Some(timing closest to the target, fewest quanta on a tie) or None
calc_can_timings(clk, rate) ==
    LET c == TimingCandidates(clk, rate)
    IN IF c = {} THEN NoTimings
       ELSE CHOOSE t \in c :
                \A u \in c : \/ Closer(t, u)
                             \/ Tied(t, u) /\ Quanta(t) <= Quanta(u)

-----------------------------------------------------------------------------
(* Registers: the register-level helpers the driver calls *)

\* Registers::enter_init_mode, request part: set CTLR.INRQ
enter_init_mode_request == inrq' = TRUE
\* Registers::enter_init_mode, polling loop exit: STATR.INAK is set
enter_init_mode_acked == inak
\* Registers::leave_init_mode, request part: clear CTLR.INRQ
leave_init_mode_request == inrq' = FALSE
\* Registers::leave_init_mode, polling loop exit: STATR.INAK is clear
leave_init_mode_acked == ~inak

\* Registers::set_bit_timing_and_mode; BTIMR accepts writes in Initialization only
set_bit_timing_and_mode(t, m) ==
    btimr' = IF inak THEN [timings |-> t, mode |-> m] ELSE btimr

\* Registers::find_free_mailbox: the first mailbox reporting Empty, or None
find_free_mailbox ==
    IF \E n \in Mailboxes : mailbox[n].tme
    THEN CHOOSE n \in Mailboxes :
            mailbox[n].tme /\ \A k \in Mailboxes : mailbox[k].tme => n <= k
    ELSE None

\* Registers::write_frame_mailbox: store the frame and request transmission
write_frame_mailbox(n, frame) ==
    mailbox' = [mailbox EXCEPT ![n] =
                    [tme |-> FALSE, frame |-> frame, status |-> "Pending"]]

\* Registers::transmit_status: the status bits of mailbox n
transmit_status(n) ==
    IF n \in Mailboxes THEN mailbox[n].status ELSE "OutOfRange"

\* embedded_can::StandardId::new: Some(id) when the raw value fits 11 bits
StandardId_new(raw) == IF raw \in 0..MaxStdId THEN raw ELSE None

\* faulty variant: the words are combined the other way round, (low << 32) | high
M_U64_LowWordHigh(dhr, dlr) == dhr \o dlr

\* ((rxmdhr as u64) << 32) | rxmdlr as u64, as the 8 bytes of the u64
U64(dhr, dlr) == dlr \o dhr

\* CanFrame::new_from_data_registers
new_from_data_registers(id, data, dlc) == CanFrame(id, dlc, data)

\* CanFifo::val and CanFifo::val_bool
fifo_val(f) == f
fifo_val_bool(f) == f = 1

\* CanFilter::fr_id_value_reg and CanFilter::fr_id_mask_reg
fr_id_value_reg(filter) == 2 * filter.bank
fr_id_mask_reg(filter) == 2 * filter.bank + 1

\* BitMode::val_bool and FilterMode::val_bool
bit_mode_val_bool(b) == b = "Bit32"
filter_mode_val_bool(m) == m = "List"

-----------------------------------------------------------------------------
(* The state after `this` is built and the peripheral is enabled and reset *)

Init ==
    /\ pc = "new_54"
    /\ clock \in Clocks
    /\ bitrate \in Bitrates
    /\ mode \in CanMode
    /\ fifo \in Fifos
    /\ last_mailbox_used = USIZE_MAX
    /\ bit_timings = NoTimings
    /\ inrq = FALSE
    /\ inak = FALSE
    /\ btimr = [timings |-> NoTimings, mode |-> "Reset"]
    \* the reset value of FCTLR.FINIT is the hardware's; new never writes it
    /\ finit \in BOOLEAN
    /\ bank = [b \in Banks |-> ResetBank]
    /\ fr = [r \in 0..(2 * MaxBank + 1) |-> 0]
    /\ mailbox = [n \in Mailboxes |-> EmptyMailbox("Idle")]
    /\ rfifo = [f \in Fifos |-> <<>>]
    /\ arg = NoArg
    /\ loc = LocInit
    /\ ret = Ret("none", "None", NoFrame)
    /\ ops = 0
    /\ arrivals = 0
    /\ hist = HistInit

-----------------------------------------------------------------------------
(* Can::new *)

\* line 54: enter_init_mode sets the request ...
New54 ==
    /\ pc = "new_54"
    /\ enter_init_mode_request
    /\ pc' = "new_54_poll"
    /\ UNCHANGED <<arg_vars, last_mailbox_used, bit_timings, inak, btimr, finit,
                   bank, fr, mailbox, rfifo, arg, loc, ret, ops, arrivals, hist>>

\* ... and returns once the hardware acknowledged
New54Poll ==
    /\ pc = "new_54_poll"
    /\ enter_init_mode_acked
    /\ pc' = "new_57"
    /\ UNCHANGED <<arg_vars, last_mailbox_used, bit_timings, hw_vars, arg, loc,
                   ret, ops, arrivals, hist>>

\* faulty variant: line 61 forgotten: the timings are computed but never programmed
M_New57_SkipProgramming ==
    /\ pc = "new_57"
    /\ LET t == calc_can_timings(clock, bitrate)
       IN IF t = NoTimings
          THEN /\ pc' = "new_failed"
               /\ ret' = Ret("new", "InvalidTimings", NoFrame)
               /\ UNCHANGED bit_timings
          ELSE /\ pc' = "new_63"
               /\ bit_timings' = t
               /\ UNCHANGED ret
    /\ UNCHANGED <<arg_vars, last_mailbox_used, hw_vars, arg, loc, ops, arrivals,
                   hist>>

\* faulty variant: the failed computation is not checked: construction goes on
M_New57_IgnoreFailure ==
    /\ pc = "new_57"
    /\ pc' = "new_61"
    /\ bit_timings' = calc_can_timings(clock, bitrate)
    /\ UNCHANGED <<arg_vars, last_mailbox_used, hw_vars, arg, loc, ret, ops,
                   arrivals, hist>>

\* lines 57-59: compute the timings, or return Err(InvalidTimings)
New57 ==
    /\ pc = "new_57"
    /\ LET t == calc_can_timings(clock, bitrate)
       IN IF t = NoTimings
          THEN /\ pc' = "new_failed"
               /\ ret' = Ret("new", "InvalidTimings", NoFrame)
               /\ UNCHANGED bit_timings
          ELSE /\ pc' = "new_61"
               /\ bit_timings' = t
               /\ UNCHANGED ret
    /\ UNCHANGED <<arg_vars, last_mailbox_used, hw_vars, arg, loc, ops, arrivals,
                   hist>>

\* line 61: program bit timing and operating mode
New61 ==
    /\ pc = "new_61"
    /\ set_bit_timing_and_mode(bit_timings, mode)
    /\ pc' = "new_63"
    /\ UNCHANGED <<arg_vars, last_mailbox_used, bit_timings, inrq, inak, finit,
                   bank, fr, mailbox, rfifo, arg, loc, ret, ops, arrivals, hist>>

\* faulty variant: line 63 goes on to poll without withdrawing the init request
M_New63_KeepsRequest ==
    /\ pc = "new_63"
    /\ pc' = "new_63_poll"
    /\ UNCHANGED <<arg_vars, last_mailbox_used, bit_timings, hw_vars, arg, loc,
                   ret, ops, arrivals, hist>>

\* line 63: leave_init_mode clears the request ...
New63 ==
    /\ pc = "new_63"
    /\ leave_init_mode_request
    /\ pc' = "new_63_poll"
    /\ UNCHANGED <<arg_vars, last_mailbox_used, bit_timings, inak, btimr, finit,
                   bank, fr, mailbox, rfifo, arg, loc, ret, ops, arrivals, hist>>

\* ... and, once the acknowledge is gone, line 65 returns Ok(this)
New63Poll ==
    /\ pc = "new_63_poll"
    /\ leave_init_mode_acked
    /\ pc' = "idle"
    /\ ret' = Ret("new", "Ok", NoFrame)
    /\ UNCHANGED <<arg_vars, last_mailbox_used, bit_timings, hw_vars, arg, loc,
                   ops, arrivals, hist>>

-----------------------------------------------------------------------------
(* The bus controller hardware *)

\* the controller follows the init request: INAK := INRQ
HwInitAck ==
    /\ inak # inrq
    /\ inak' = inrq
    /\ UNCHANGED <<pc, arg_vars, last_mailbox_used, bit_timings, inrq, btimr,
                   finit, bank, fr, mailbox, rfifo, arg, loc, ret, ops, arrivals,
                   hist>>

\* a pending mailbox leaves the bus: sent, arbitration lost or transmit error
HwTxComplete(n, outcome) ==
    /\ ~inak
    /\ ~mailbox[n].tme
    /\ mailbox' = [mailbox EXCEPT ![n] = EmptyMailbox(outcome)]
    /\ UNCHANGED <<pc, arg_vars, last_mailbox_used, bit_timings, inrq, inak,
                   btimr, finit, bank, fr, rfifo, arg, loc, ret, ops, arrivals,
                   hist>>

\* a frame accepted by an active filter bank lands in the FIFO the bank is
\* associated with; a full FIFO overruns and its newest message is replaced
HwReceive(m, b) ==
    /\ ~inak
    /\ ~finit
    /\ bank[b].fact
    /\ arrivals < MaxArrivals
    /\ arrivals' = arrivals + 1
    /\ LET f == IF bank[b].ffa THEN 1 ELSE 0
           q == rfifo[f]
       IN rfifo' = [rfifo EXCEPT ![f] =
                        IF Len(q) < FifoDepth THEN Append(q, m)
                        ELSE Append(SubSeq(q, 1, FifoDepth - 1), m)]
          /\ hist' = IF f # fifo_val(fifo) THEN hist
                     ELSE IF hist.overrun \/ Len(q) = FifoDepth
                     THEN [hist EXCEPT !.expected = <<>>, !.overrun = TRUE]
                     ELSE [hist EXCEPT !.expected = Append(@, m)]
    /\ UNCHANGED <<pc, arg_vars, last_mailbox_used, bit_timings, inrq, inak,
                   btimr, finit, bank, fr, mailbox, arg, loc, ret, ops>>

-----------------------------------------------------------------------------
(* Calls on the handle *)

\* the caller holds a frame that transmit refused with WouldBlock
Blocked == ret.op = "transmit" /\ ret.val = "WouldBlock"

\* a new call may start: the handle exists and no call is in progress
CanCall == pc = "idle" /\ ops < MaxOps

-----------------------------------------------------------------------------
(* Can::add_filter *)

\* faulty variant: line 73 forgotten: the bank is programmed without entering
\* filter init mode
M_AddFilter73_NoFinit(filter) ==
    /\ CanCall
    /\ ops' = ops + 1
    /\ arg' = [frame |-> NoFrame, filter |-> filter]
    /\ pc' = "af_75"
    /\ UNCHANGED <<arg_vars, last_mailbox_used, bit_timings, hw_vars, loc, ret,
                   arrivals, hist>>

\* line 73: enter filter init mode
AddFilter73(filter) ==
    /\ CanCall
    /\ ops' = ops + 1
    /\ arg' = [frame |-> NoFrame, filter |-> filter]
    /\ finit' = TRUE
    /\ pc' = "af_75"
    /\ UNCHANGED <<arg_vars, last_mailbox_used, bit_timings, inrq, inak, btimr,
                   bank, fr, mailbox, rfifo, loc, ret, arrivals, hist>>

\* lines 75-76: filter scale of the bank
AddFilter75 ==
    /\ pc = "af_75"
    /\ bank' = [bank EXCEPT ![arg.filter.bank].fsc =
                    bit_mode_val_bool(arg.filter.bit_mode)]
    /\ pc' = "af_78"
    /\ UNCHANGED <<arg_vars, last_mailbox_used, bit_timings, inrq, inak, btimr,
                   finit, fr, mailbox, rfifo, arg, loc, ret, ops, arrivals, hist>>

\* lines 78-79: identifier value register
AddFilter78 ==
    /\ pc = "af_78"
    /\ fr' = [fr EXCEPT ![fr_id_value_reg(arg.filter)] = arg.filter.id_value]
    /\ pc' = "af_81"
    /\ UNCHANGED <<arg_vars, last_mailbox_used, bit_timings, inrq, inak, btimr,
                   finit, bank, mailbox, rfifo, arg, loc, ret, ops, arrivals,
                   hist>>

\* lines 81-82: identifier mask register
AddFilter81 ==
    /\ pc = "af_81"
    /\ fr' = [fr EXCEPT ![fr_id_mask_reg(arg.filter)] = arg.filter.id_mask]
    /\ pc' = "af_84"
    /\ UNCHANGED <<arg_vars, last_mailbox_used, bit_timings, inrq, inak, btimr,
                   finit, bank, mailbox, rfifo, arg, loc, ret, ops, arrivals,
                   hist>>

\* line 84: match mode of the bank
AddFilter84 ==
    /\ pc = "af_84"
    /\ bank' = [bank EXCEPT ![arg.filter.bank].fbm =
                    filter_mode_val_bool(arg.filter.mode)]
    /\ pc' = "af_86"
    /\ UNCHANGED <<arg_vars, last_mailbox_used, bit_timings, inrq, inak, btimr,
                   finit, fr, mailbox, rfifo, arg, loc, ret, ops, arrivals, hist>>

\* faulty variant: the bank is always associated with FIFO 0
M_AddFilter86_AlwaysFifo0 ==
    /\ pc = "af_86"
    /\ bank' = [bank EXCEPT ![arg.filter.bank].ffa = FALSE]
    /\ pc' = "af_89"
    /\ UNCHANGED <<arg_vars, last_mailbox_used, bit_timings, inrq, inak, btimr,
                   finit, fr, mailbox, rfifo, arg, loc, ret, ops, arrivals, hist>>

\* lines 86-87: associate the bank with the handle's FIFO
AddFilter86 ==
    /\ pc = "af_86"
    /\ bank' = [bank EXCEPT ![arg.filter.bank].ffa = fifo_val_bool(fifo)]
    /\ pc' = "af_89"
    /\ UNCHANGED <<arg_vars, last_mailbox_used, bit_timings, inrq, inak, btimr,
                   finit, fr, mailbox, rfifo, arg, loc, ret, ops, arrivals, hist>>

\* line 89: activate the bank
AddFilter89 ==
    /\ pc = "af_89"
    /\ bank' = [bank EXCEPT ![arg.filter.bank].fact = TRUE]
    /\ pc' = "af_91"
    /\ UNCHANGED <<arg_vars, last_mailbox_used, bit_timings, inrq, inak, btimr,
                   finit, fr, mailbox, rfifo, arg, loc, ret, ops, arrivals, hist>>

\* faulty variant: line 91 forgotten: filter init mode is never left
M_AddFilter91_KeepsFinit ==
    /\ pc = "af_91"
    /\ pc' = "idle"
    /\ arg' = NoArg
    /\ ret' = Ret("add_filter", "Unit", NoFrame)
    /\ hist' = [hist EXCEPT !.filter_done = TRUE]
    /\ UNCHANGED <<arg_vars, last_mailbox_used, bit_timings, hw_vars, loc, ops,
                   arrivals>>

\* line 91: leave filter init mode and return
AddFilter91 ==
    /\ pc = "af_91"
    /\ finit' = FALSE
    /\ pc' = "idle"
    /\ arg' = NoArg
    /\ ret' = Ret("add_filter", "Unit", NoFrame)
    /\ hist' = [hist EXCEPT !.filter_done = TRUE]
    /\ UNCHANGED <<arg_vars, last_mailbox_used, bit_timings, inrq, inak, btimr,
                   bank, fr, mailbox, rfifo, loc, ops, arrivals>>

-----------------------------------------------------------------------------
(* Can::transmit *)

\* faulty variant: no free mailbox: mailbox 0 is taken instead of returning WouldBlock
M_Transmit101_TakesMailbox0(frame) ==
    /\ pc = "idle"
    /\ \/ ops < MaxOps /\ ops' = ops + 1
       \/ Blocked /\ frame = arg.frame /\ ops' = ops
    /\ LET n == find_free_mailbox
       IN /\ pc' = "tx_106"
          /\ loc' = [loc EXCEPT !.mailbox_num = IF n = None THEN 0 ELSE n]
          /\ UNCHANGED ret
    /\ arg' = [frame |-> frame, filter |-> NoFilter]
    /\ hist' = [hist EXCEPT !.retried = Blocked /\ frame = arg.frame]
    /\ UNCHANGED <<arg_vars, last_mailbox_used, bit_timings, hw_vars, arrivals>>

\* faulty variant: a retry answers from the previous scan instead of reading again
M_Transmit101_CachedScan(frame) ==
    /\ pc = "idle"
    /\ \/ ops < MaxOps /\ ops' = ops + 1
       \/ Blocked /\ frame = arg.frame /\ ops' = ops
    /\ LET n == IF Blocked /\ frame = arg.frame THEN None ELSE find_free_mailbox
       IN IF n = None
          THEN /\ pc' = "idle"
               /\ ret' = Ret("transmit", "WouldBlock", NoFrame)
               /\ UNCHANGED loc
          ELSE /\ pc' = "tx_106"
               /\ loc' = [loc EXCEPT !.mailbox_num = n]
               /\ UNCHANGED ret
    /\ arg' = [frame |-> frame, filter |-> NoFilter]
    /\ hist' = [hist EXCEPT !.retried = Blocked /\ frame = arg.frame]
    /\ UNCHANGED <<arg_vars, last_mailbox_used, bit_timings, hw_vars, arrivals>>

\* lines 101-104: look for a free mailbox; none: Err(WouldBlock).  Calling
\* again with the refused frame continues the same operation.
Transmit101(frame) ==
    /\ pc = "idle"
    /\ \/ ops < MaxOps /\ ops' = ops + 1
       \/ Blocked /\ frame = arg.frame /\ ops' = ops
    /\ LET n == find_free_mailbox
       IN IF n = None
          THEN /\ pc' = "idle"
               /\ ret' = Ret("transmit", "WouldBlock", NoFrame)
               /\ UNCHANGED loc
          ELSE /\ pc' = "tx_106"
               /\ loc' = [loc EXCEPT !.mailbox_num = n]
               /\ UNCHANGED ret
    /\ arg' = [frame |-> frame, filter |-> NoFilter]
    /\ hist' = [hist EXCEPT !.retried = Blocked /\ frame = arg.frame]
    /\ UNCHANGED <<arg_vars, last_mailbox_used, bit_timings, hw_vars, arrivals>>

\* faulty variant: the frame goes to mailbox 0 whatever the scan found
M_Transmit106_WritesMailbox0 ==
    /\ pc = "tx_106"
    /\ write_frame_mailbox(0, arg.frame)
    /\ pc' = "idle"
    /\ ret' = Ret("transmit", "OkNone", NoFrame)
    /\ hist' = [hist EXCEPT !.last_written = 0]
    /\ arg' = NoArg
    /\ loc' = LocInit
    /\ UNCHANGED <<arg_vars, last_mailbox_used, bit_timings, inrq, inak, btimr,
                   finit, bank, fr, rfifo, ops, arrivals>>

\* lines 106-110: write the frame into the mailbox found, return Ok(None)
Transmit106 ==
    /\ pc = "tx_106"
    /\ write_frame_mailbox(loc.mailbox_num, arg.frame)
    /\ pc' = "idle"
    /\ ret' = Ret("transmit", "OkNone", NoFrame)
    /\ hist' = [hist EXCEPT !.last_written = loc.mailbox_num]
    /\ arg' = NoArg
    /\ loc' = LocInit
    /\ UNCHANGED <<arg_vars, last_mailbox_used, bit_timings, inrq, inak, btimr,
                   finit, bank, fr, rfifo, ops, arrivals>>

-----------------------------------------------------------------------------
(* Can::transmit_status *)

\* faulty variant: the index guard of line 115 is missing
M_TransmitStatus_NoGuard ==
    /\ CanCall
    /\ ops' = ops + 1
    /\ ret' = Ret("transmit_status", transmit_status(last_mailbox_used), NoFrame)
    /\ hist' = [hist EXCEPT !.tsr_read = last_mailbox_used]
    /\ arg' = NoArg
    /\ UNCHANGED <<pc, arg_vars, last_mailbox_used, bit_timings, hw_vars, loc,
                   arrivals>>

\* lines 114-120
TransmitStatus ==
    /\ CanCall
    /\ ops' = ops + 1
    /\ IF last_mailbox_used > LastMailbox
       THEN /\ ret' = Ret("transmit_status", "OtherError", NoFrame)
            /\ hist' = [hist EXCEPT !.tsr_read = None]
       ELSE /\ ret' = Ret("transmit_status", transmit_status(last_mailbox_used),
                          NoFrame)
            /\ hist' = [hist EXCEPT !.tsr_read = last_mailbox_used]
    /\ arg' = NoArg
    /\ UNCHANGED <<pc, arg_vars, last_mailbox_used, bit_timings, hw_vars, loc,
                   arrivals>>

-----------------------------------------------------------------------------
(* Can::try_recv *)

\* faulty variant: an empty FIFO is reported as a hard error
M_TryRecv129_HardError ==
    /\ CanCall
    /\ ops' = ops + 1
    /\ arg' = NoArg
    /\ hist' = [hist EXCEPT !.released = 0]
    /\ LET fmp == Len(rfifo[fifo_val(fifo)])
       IN IF fmp = 0
          THEN /\ pc' = "idle"
               /\ ret' = Ret("try_recv", "Other", NoFrame)
               /\ UNCHANGED loc
          ELSE /\ pc' = "rx_133"
               /\ UNCHANGED <<loc, ret>>
    /\ UNCHANGED <<arg_vars, last_mailbox_used, bit_timings, hw_vars, arrivals>>

\* lines 129-131: pending-message count of the bound FIFO; 0: Err(WouldBlock)
TryRecv129 ==
    /\ CanCall
    /\ ops' = ops + 1
    /\ arg' = NoArg
    /\ hist' = [hist EXCEPT !.released = 0]
    /\ LET fmp == Len(rfifo[fifo_val(fifo)])
       IN IF fmp = 0
          THEN /\ pc' = "idle"
               /\ ret' = Ret("try_recv", "WouldBlock", NoFrame)
               /\ UNCHANGED loc
          ELSE /\ pc' = "rx_133"
               /\ UNCHANGED <<loc, ret>>
    /\ UNCHANGED <<arg_vars, last_mailbox_used, bit_timings, hw_vars, arrivals>>

\* the receive mailbox registers show the head slot of the FIFO
RxHead(f) ==
    IF rfifo[f] = <<>> THEN RawMsg(0, 0, Word(0, 0, 0, 0), Word(0, 0, 0, 0))
    ELSE Head(rfifo[f])

\* line 133: RXMDTR.DLC
TryRecv133 ==
    /\ pc = "rx_133"
    /\ loc' = [loc EXCEPT !.dlc = RxHead(fifo_val(fifo)).dlc]
    /\ pc' = "rx_134"
    /\ UNCHANGED <<arg_vars, last_mailbox_used, bit_timings, hw_vars, arg, ret,
                   ops, arrivals, hist>>

\* lines 134-136: RXMIR.STID, then StandardId::new(raw_id).unwrap()
TryRecv134 ==
    /\ pc = "rx_134"
    /\ LET raw_id == RxHead(fifo_val(fifo)).stid
           id == StandardId_new(raw_id)
       IN /\ loc' = [loc EXCEPT !.raw_id = raw_id, !.id = id]
          /\ pc' = IF id = None THEN "panic" ELSE "rx_138"
    /\ UNCHANGED <<arg_vars, last_mailbox_used, bit_timings, hw_vars, arg, ret,
                   ops, arrivals, hist>>

\* faulty variant: the slot is released as soon as the high data word is read,
\* so the low word comes from the message behind it
M_TryRecv138h_ReleasesEarly ==
    /\ pc = "rx_138"
    /\ loc' = [loc EXCEPT !.dhr = RxHead(fifo_val(fifo)).dhr]
    /\ rfifo' = [rfifo EXCEPT ![fifo_val(fifo)] =
                    IF rfifo[fifo_val(fifo)] = <<>> THEN <<>>
                    ELSE Tail(rfifo[fifo_val(fifo)])]
    /\ pc' = "rx_138l"
    /\ UNCHANGED <<arg_vars, last_mailbox_used, bit_timings, inrq, inak, btimr,
                   finit, bank, fr, mailbox, arg, ret, ops, arrivals, hist>>

\* line 138, left operand: RXMDHR
TryRecv138h ==
    /\ pc = "rx_138"
    /\ loc' = [loc EXCEPT !.dhr = RxHead(fifo_val(fifo)).dhr]
    /\ pc' = "rx_138l"
    /\ UNCHANGED <<arg_vars, last_mailbox_used, bit_timings, hw_vars, arg, ret,
                   ops, arrivals, hist>>

\* line 138, right operand: RXMDLR
TryRecv138l ==
    /\ pc = "rx_138l"
    /\ loc' = [loc EXCEPT !.dlr = RxHead(fifo_val(fifo)).dlr]
    /\ pc' = "rx_142"
    /\ UNCHANGED <<arg_vars, last_mailbox_used, bit_timings, hw_vars, arg, ret,
                   ops, arrivals, hist>>

\* faulty variant: lines 142-145 forgotten: the head slot is never released
M_TryRecv142_NoRelease ==
    /\ pc = "rx_142"
    /\ ret' = Ret("try_recv", "Ok",
                  new_from_data_registers(loc.id, U64(loc.dhr, loc.dlr), loc.dlc))
    /\ pc' = "idle"
    /\ loc' = LocInit
    /\ UNCHANGED <<arg_vars, last_mailbox_used, bit_timings, hw_vars, arg, ops,
                   arrivals, hist>>

\* faulty variant: the release is issued twice, once for the slot read and
\* once more for the slot behind it
M_TryRecv142_ReleasesTwice ==
    /\ pc = "rx_142"
    /\ LET f == fifo_val(fifo)
           frame == new_from_data_registers(loc.id, U64(loc.dhr, loc.dlr), loc.dlc)
       IN /\ rfifo' = [rfifo EXCEPT ![f] =
                          IF Len(rfifo[f]) < 2 THEN <<>> ELSE Tail(Tail(rfifo[f]))]
          /\ ret' = Ret("try_recv", "Ok", frame)
    /\ hist' = [hist EXCEPT !.released = hist.released + 2,
                            !.expected = IF @ = <<>> THEN <<>> ELSE Tail(@)]
    /\ pc' = "idle"
    /\ loc' = LocInit
    /\ UNCHANGED <<arg_vars, last_mailbox_used, bit_timings, inrq, inak, btimr,
                   finit, bank, fr, mailbox, arg, ops, arrivals>>

\* lines 140-147: build the frame, release the FIFO's head slot, return it
TryRecv142 ==
    /\ pc = "rx_142"
    /\ LET f == fifo_val(fifo)
           frame == new_from_data_registers(loc.id, U64(loc.dhr, loc.dlr), loc.dlc)
       IN /\ rfifo' = [rfifo EXCEPT ![f] =
                          IF rfifo[f] = <<>> THEN <<>> ELSE Tail(rfifo[f])]
          /\ ret' = Ret("try_recv", "Ok", frame)
    /\ hist' = [hist EXCEPT !.released = hist.released + 1,
                            !.expected = IF @ = <<>> THEN <<>> ELSE Tail(@)]
    /\ pc' = "idle"
    /\ loc' = LocInit
    /\ UNCHANGED <<arg_vars, last_mailbox_used, bit_timings, inrq, inak, btimr,
                   finit, bank, fr, mailbox, arg, ops, arrivals>>

-----------------------------------------------------------------------------
(* The caller and the hardware together *)

New == New54 \/ New54Poll \/ New57 \/ New61 \/ New63 \/ New63Poll

AddFilter ==
    \/ \E filter \in Filters : AddFilter73(filter)
    \/ AddFilter75 \/ AddFilter78 \/ AddFilter81 \/ AddFilter84
    \/ AddFilter86 \/ AddFilter89 \/ AddFilter91

Transmit == (\E frame \in TxFrames : Transmit101(frame)) \/ Transmit106

TryRecv ==
    \/ TryRecv129 \/ TryRecv133 \/ TryRecv134
    \/ TryRecv138h \/ TryRecv138l \/ TryRecv142

HwTx == \E n \in Mailboxes, o \in {"TxOk", "ArbLost", "TxErr"} : HwTxComplete(n, o)

HwRx == \E m \in RawMsgs, b \in Banks : HwReceive(m, b)

Hardware == HwInitAck \/ HwTx \/ HwRx

Next == New \/ AddFilter \/ Transmit \/ TransmitStatus \/ TryRecv \/ Hardware

Spec == Init /\ [][Next]_vars

\* the transmit side alone: construction, transmit, transmit_status, mailboxes
NextTx == New \/ Transmit \/ TransmitStatus \/ HwInitAck \/ HwTx

SpecTx == Init /\ [][NextTx]_vars

\* the transmit side with a caller that, once refused, retries the same frame,
\* and hardware that does not leave a pending mailbox waiting for ever
RetryTransmit == Blocked /\ Transmit101(arg.frame)

FreshTransmit == ~Blocked /\ \E frame \in TxFrames : Transmit101(frame)

NextRetry == New \/ FreshTransmit \/ RetryTransmit \/ Transmit106 \/ HwInitAck \/ HwTx

SpecRetry ==
    /\ Init /\ [][NextRetry]_vars
    /\ WF_vars(HwTx) /\ WF_vars(RetryTransmit) /\ WF_vars(Transmit106)

\* construction with the caller's program running on and hardware that
\* answers every change of the init request
SpecNewFair == Init /\ [][NextTx]_vars /\ WF_vars(New) /\ WF_vars(HwInitAck)

\* the receive side alone: construction, add_filter, try_recv, arrivals
NextRx == New \/ AddFilter \/ TryRecv \/ HwInitAck \/ HwRx

SpecRx == Init /\ [][NextRx]_vars

\* the receive side with the bus delivering, one at a time, the messages that
\* encode the frames of RoundTripFrames
HwRxEncoded ==
    \E frame \in RoundTripFrames, b \in Banks :
        /\ \A f \in Fifos : rfifo[f] = <<>>
        /\ HwReceive(Encode(frame), b)

NextRoundTrip == New \/ AddFilter \/ TryRecv \/ HwInitAck \/ HwRxEncoded

SpecRoundTrip == Init /\ [][NextRoundTrip]_vars

-----------------------------------------------------------------------------
(* Properties *)

SomeMailboxEmpty == \E n \in Mailboxes : mailbox[n].tme
AllMailboxesPending == \A n \in Mailboxes : ~mailbox[n].tme

\* this step is the mailbox scan of a transmit call
TransmitScans == \E frame \in TxFrames : Transmit101(frame)

\* this step is the return of a transmit call
TransmitReturns ==
    \/ TransmitScans /\ pc' = "idle"
    \/ Transmit106

AddFilterPcs == {"af_75", "af_78", "af_81", "af_84", "af_86", "af_89", "af_91"}
NewPcs == {"new_54", "new_54_poll", "new_57", "new_61", "new_63", "new_63_poll"}

C2_ReplacesLowerPriority ==
    [][(/\ TransmitReturns
        /\ TransmitScans
        /\ ~SomeMailboxEmpty
        /\ \E n \in Mailboxes : mailbox[n].frame.id > arg'.frame.id)
       => (ret'.op = "transmit" /\ ret'.val = "OkSome")]_vars

\* C3: try_recv returns Err(WouldBlock) exactly when the pending count of the
\* bound FIFO is 0, then releasing nothing and writing no register; otherwise
\* it returns the frame made of the head slot's identifier, DLC and data words
\* and releases the head slot exactly once.
C3_TryRecvResult ==
    /\ [](pc = "idle" /\ ret.op = "try_recv" =>
            \/ ret.val = "WouldBlock" /\ hist.released = 0
            \/ ret.val = "Ok" /\ hist.released = 1)
    /\ [][/\ TryRecv129 =>
                /\ UNCHANGED hw_vars
                /\ IF Len(rfifo[fifo]) = 0
                   THEN pc' = "idle" /\ ret' = Ret("try_recv", "WouldBlock", NoFrame)
                   ELSE pc' = "rx_133" /\ ret' = ret
          /\ (pc = "rx_142" /\ pc' = "idle") =>
                LET h == Head(rfifo[fifo])
                IN /\ ret' = Ret("try_recv", "Ok",
                                 CanFrame(h.stid, h.dlc, h.dlr \o h.dhr))
                   /\ rfifo' = [rfifo EXCEPT ![fifo] = Tail(rfifo[fifo])]
          /\ (pc \in {"rx_133", "rx_134", "rx_138", "rx_138l"} /\ pc' # pc) =>
                /\ pc' \in {"rx_134", "rx_138", "rx_138l", "rx_142"}
                /\ UNCHANGED <<hw_vars, hist>>
         ]_vars

\* C3 happens: a frame with 8 data bytes was received and released once
C3_Witness ==
    /\ pc = "idle"
    /\ ret.op = "try_recv" /\ ret.val = "Ok"
    /\ ret.frame = CanFrame(MaxStdId, 8, <<1, 2, 3, 4, 5, 6, 7, 8>>)
    /\ hist.released = 1

\* C4 as stated, for a constructed handle: FINIT is set only strictly inside
\* an add_filter call
C4_FinitOnlyInsideAddFilter ==
    (pc \notin NewPcs /\ pc # "new_failed" /\ finit) => pc \in AddFilterPcs

\* C4: once an add_filter call has returned, FINIT is clear whenever no
\* add_filter call is in progress, and the driver sets the flag only on
\* entering add_filter; before the first call the flag holds the reset value
\* of the hardware, which new does not write.
C4_FinitClearAfterReturn ==
    /\ [](hist.filter_done /\ pc \notin AddFilterPcs => ~finit)
    /\ [][(finit' # finit) =>
            \/ finit' /\ pc = "idle" /\ pc' = "af_75"
            \/ ~finit' /\ pc = "af_91" /\ pc' = "idle"]_vars

\* C4 happens: add_filter returned, the bank is active and FINIT is clear
C4_Witness ==
    /\ pc = "idle"
    /\ ret.op = "add_filter"
    /\ hist.filter_done
    /\ \E b \in Banks : bank[b].fact
    /\ ~finit

\* C5: after a transmit returned Ok(None), transmit_status returns the status
\* the hardware shows, at the moment of the query, for the mailbox the most
\* recent successful transmit wrote.
C5_StatusOfLastMailbox ==
    [][(TransmitStatus /\ hist.last_written # None)
       => ret' = Ret("transmit_status", mailbox[hist.last_written].status,
                     NoFrame)]_vars

\* C6: transmit_status on a handle on which no transmit succeeded returns
\* OtherError; it reads the status of mailboxes 0..=2 only, and with a
\* remembered index above 2 it returns OtherError without reading a status.
C6_StatusGuard ==
    /\ hist.tsr_read \in Mailboxes \cup {None}
    /\ ret.op = "transmit_status" =>
          /\ hist.last_written = None => ret.val = "OtherError"
          /\ last_mailbox_used > LastMailbox =>
                ret.val = "OtherError" /\ hist.tsr_read = None

\* C6 happens: a status query on a handle that never transmitted
C6_Witness ==
    /\ pc = "idle"
    /\ ret = Ret("transmit_status", "OtherError", NoFrame)
    /\ hist.last_written = None
    /\ hist.tsr_read = None

\* C7: during construction the timing/mode register is written only in
\* Initialization mode, after the enter request was acknowledged and before
\* the leave request; when new has returned Ok the peripheral has left
\* Initialization mode with the computed timing and the requested mode set.
C7_InitBracket ==
    /\ [](pc \notin NewPcs /\ pc # "new_failed" =>
            /\ ~inrq /\ ~inak
            /\ btimr = [timings |-> calc_can_timings(clock, bitrate),
                        mode |-> mode])
    /\ [][(btimr' # btimr) => (pc = "new_61" /\ inrq /\ inak)]_vars
    /\ [][(inrq' # inrq) =>
            \/ inrq' /\ pc = "new_54" /\ btimr.mode = "Reset"
            \/ ~inrq' /\ pc = "new_63" /\ btimr.mode = mode]_vars

\* C7 happens: new returned Ok in Loopback mode
C7_Witness ==
    /\ pc = "idle"
    /\ ret = Ret("new", "Ok", NoFrame)
    /\ ~inak
    /\ btimr.mode = "Loopback"
    /\ btimr.timings # NoTimings

\* C8: new returns Err(InvalidTimings) exactly when the calculator finds no
\* solution, as for clock 8_000_000 and bitrate 1; then no handle exists and
\* the timing/mode register was never written; otherwise new returns Ok.
C8_InvalidTimings ==
    LET none == calc_can_timings(clock, bitrate) = NoTimings
    IN /\ (clock = 8000000 /\ bitrate = 1) => none
       /\ none => /\ pc \in {"new_54", "new_54_poll", "new_57", "new_failed"}
                  /\ btimr = [timings |-> NoTimings, mode |-> "Reset"]
       /\ pc = "new_failed" => none /\ ret = Ret("new", "InvalidTimings", NoFrame)
       /\ ~none => pc # "new_failed" /\ ret.val # "InvalidTimings"
       /\ (~none /\ pc \notin NewPcs) => ret.op # "new" \/ ret.val = "Ok"

\* C8 happens: construction with bitrate 1 failed
C8_Witness ==
    /\ pc = "new_failed"
    /\ clock = 8000000 /\ bitrate = 1
    /\ ret = Ret("new", "InvalidTimings", NoFrame)

\* C9: after construction transmit and try_recv return a success value or
\* Err(WouldBlock), never another error and never InvalidTimings.
C9_OnlyWouldBlock ==
    /\ ret.op = "transmit" => ret.val \in {"OkNone", "OkSome", "WouldBlock"}
    /\ ret.op = "try_recv" => ret.val \in {"Ok", "WouldBlock"}
    /\ ret.val = "InvalidTimings" => ret.op = "new" /\ pc = "new_failed"

\* C9 happens: try_recv found the FIFO empty while a transmitted frame is pending
C9_Witness ==
    /\ pc = "idle"
    /\ ret = Ret("try_recv", "WouldBlock", NoFrame)
    /\ \E n \in Mailboxes : ~mailbox[n].tme
    /\ hist.filter_done

\* C10: a caller that retries the refused frame after each Err(WouldBlock),
\* with hardware that eventually completes pending mailboxes, eventually
\* gets Ok(None).
C10_RetrySucceeds ==
    Blocked ~> (ret = Ret("transmit", "OkNone", NoFrame) /\ hist.retried)

\* C10 happens: a refused frame was accepted on a retry
C10_Witness ==
    /\ pc = "idle"
    /\ ret = Ret("transmit", "OkNone", NoFrame)
    /\ hist.retried

\* C11: every successful enqueue (transmit returning Ok(None) after writing
\* mailbox n) sets last_mailbox_used to n; a call returning Err(WouldBlock)
\* leaves the field unchanged.
C11_LastMailboxUpdated ==
    [][/\ Transmit106 => last_mailbox_used' = loc.mailbox_num
       /\ (TransmitScans /\ pc' = "idle") => last_mailbox_used' = last_mailbox_used
      ]_vars

\* this step writes a register of some filter bank: scale, match mode, FIFO
\* association or active bit of the bank, or one of its identifier registers
BankWritten == bank' # bank \/ fr' # fr

\* C12: within an add_filter call the registers are written in the order
\* FINIT set, scale, identifier value, identifier mask, match mode, FIFO
\* association, activation, FINIT clear, one write per step and each on the
\* bank of the call; so the active bit is set only after the five others,
\* and every bank register write happens while FINIT is set.
C12_FilterWriteOrder ==
    [][LET b == arg.filter.bank
           only(field) ==
               /\ fr' = fr
               /\ \A c \in Banks \ {b} : bank'[c] = bank[c]
               /\ \A g \in {"fsc", "fbm", "ffa", "fact"} \ {field} :
                     bank'[b][g] = bank[b][g]
       IN /\ BankWritten => finit /\ finit' /\ pc \in AddFilterPcs
          /\ (pc = "idle" /\ pc' = "af_75") => finit' /\ ~BankWritten
          /\ (pc = "af_75" /\ pc' # pc) =>
                /\ pc' = "af_78" /\ only("fsc")
                /\ bank'[b].fsc = (arg.filter.bit_mode = "Bit32")
          /\ (pc = "af_78" /\ pc' # pc) =>
                /\ pc' = "af_81" /\ bank' = bank
                /\ fr' = [fr EXCEPT ![2 * b] = arg.filter.id_value]
          /\ (pc = "af_81" /\ pc' # pc) =>
                /\ pc' = "af_84" /\ bank' = bank
                /\ fr' = [fr EXCEPT ![2 * b + 1] = arg.filter.id_mask]
          /\ (pc = "af_84" /\ pc' # pc) =>
                /\ pc' = "af_86" /\ only("fbm")
                /\ bank'[b].fbm = (arg.filter.mode = "List")
          /\ (pc = "af_86" /\ pc' # pc) => pc' = "af_89" /\ only("ffa")
          /\ (pc = "af_89" /\ pc' # pc) =>
                pc' = "af_91" /\ only("fact") /\ bank'[b].fact
          /\ (pc = "af_91" /\ pc' # pc) =>
                pc' = "idle" /\ ~finit' /\ ~BankWritten
          /\ (pc \in AddFilterPcs /\ pc' = pc) => ~BankWritten /\ finit' = finit
      ]_vars

\* C12 happens: a call is about to clear FINIT with the bank configured as a
\* 32-bit mask filter and active
C12_Witness ==
    /\ pc = "af_91"
    /\ finit
    /\ arg.filter.bit_mode = "Bit32" /\ arg.filter.mode = "Mask"
    /\ bank[arg.filter.bank].fact /\ bank[arg.filter.bank].fsc
    /\ fr[2 * arg.filter.bank] = arg.filter.id_value
    /\ fr[2 * arg.filter.bank + 1] = arg.filter.id_mask

RxPcs == {"rx_133", "rx_134", "rx_138", "rx_138l", "rx_142"}

\* this step releases a slot of a receive FIFO (RFOM): its count goes down
Released == \E f \in Fifos : Len(rfifo'[f]) < Len(rfifo[f])

\* this step reads a receive mailbox register into a local of try_recv
RxRegisterRead == loc' # loc /\ loc' # LocInit

\* C13: in a successful try_recv the release is issued only after the DLC,
\* the identifier and both data words of the head slot were read, and the call
\* reads no receive register after it; all four reads see the same message,
\* the head slot at the time of the release.
C13_ReleaseAfterReads ==
    /\ [](pc \in RxPcs =>
            LET h == RxHead(fifo)
            IN /\ hist.released = 0
               /\ rfifo[fifo] # <<>>
               /\ loc.dlc \in {None, h.dlc}
               /\ loc.raw_id \in {None, h.stid}
               /\ loc.dhr \in {NoWord, h.dhr}
               /\ loc.dlr \in {NoWord, h.dlr})
    /\ [][/\ Released =>
                /\ pc = "rx_142" /\ pc' = "idle"
                /\ loc.dlc # None /\ loc.raw_id # None
                /\ loc.dhr # NoWord /\ loc.dlr # NoWord
                /\ ~RxRegisterRead
          /\ RxRegisterRead =>
                /\ pc \in RxPcs \ {"rx_142"} /\ pc' \in RxPcs
                /\ ~Released /\ hist.released = 0 /\ hist' = hist
         ]_vars

\* C13 happens: a frame was returned and released while another message,
\* which arrived during the call or before it, waits behind it
C13_Witness ==
    /\ pc = "idle"
    /\ ret.op = "try_recv" /\ ret.val = "Ok" /\ ret.frame.dlc = 2
    /\ hist.released = 1
    /\ Len(rfifo[fifo]) = 2
    /\ rfifo[fifo][1].dlc = 8

\* this step changes mailbox n the way only the driver does: a frame is stored
\* and transmission requested
MailboxWritten(n) == mailbox'[n] # mailbox[n] /\ ~mailbox'[n].tme

FrameOf(m) ==
    new_from_data_registers(StandardId_new(m.stid), U64(m.dhr, m.dlr), m.dlc)

\* this step is the return of a successful try_recv
TryRecvReturnsFrame == pc = "rx_142" /\ pc' = "idle"

\* C15: with arrivals interleaved anywhere in try_recv, and while the bound
\* FIFO has not overrun, each successful call returns the oldest message
\* placed in the FIFO and not returned yet, so the frames returned are a
\* prefix of the arrivals, in order, none twice, none skipped; each successful
\* call takes the pending count down by exactly one.
C15_ReturnsArrivalPrefix ==
    /\ [](~hist.overrun => Len(rfifo[fifo]) = Len(hist.expected))
    /\ [][TryRecvReturnsFrame =>
            /\ Len(rfifo'[fifo]) = Len(rfifo[fifo]) - 1
            /\ ~hist.overrun =>
                  /\ hist.expected # <<>>
                  /\ ret' = Ret("try_recv", "Ok", FrameOf(Head(hist.expected)))
                  /\ hist'.expected = Tail(hist.expected)
         ]_vars

\* C15 happens: after the first arrival was returned, two more messages are
\* pending; the call has read the older one and is about to return it and
\* leave the newer one
C15_Witness ==
    /\ pc = "rx_142"
    /\ ~hist.overrun
    /\ arrivals = 3
    /\ Len(hist.expected) = 2
    /\ hist.expected[1].dlc = 8 /\ hist.expected[2].dlc = 2
    /\ loc.dlc = 8
    /\ ret.op = "try_recv" /\ ret.val = "Ok" /\ ret.frame.dlc = 2

\* C16: whenever new has returned, with Ok or with Err(InvalidTimings), the
\* peripheral is not in Initialization mode and no enter request is
\* outstanding; the timing computation, which can fail, runs before
\* Initialization mode is entered.
C16_NotLeftInInitMode ==
    /\ pc \notin NewPcs => ~inrq /\ ~inak
    /\ pc = "new_57" => ~inrq /\ ~inak

\* C17: if the hardware eventually acknowledges every init request and every
\* withdrawal of it, new terminates: both polling loops exit and new returns
\* Ok or Err(InvalidTimings).
C17_NewTerminates ==
    <>(\/ pc = "idle" /\ ret = Ret("new", "Ok", NoFrame)
       \/ pc = "new_failed" /\ ret = Ret("new", "InvalidTimings", NoFrame))

\* C17 happens: both polling loops have exited and new has just returned Ok
C17_Witness ==
    /\ pc = "idle"
    /\ ops = 0
    /\ ret = Ret("new", "Ok", NoFrame)
    /\ ~inrq /\ ~inak
    /\ bit_timings = calc_can_timings(clock, bitrate)

\* C18: every frame try_recv returns has an identifier that fits in 11 bits,
\* a DLC of at most 8 and at most 8 payload bytes, whatever the receive
\* registers hold, a DLC field of 9..15 included; and try_recv never panics
\* in StandardId::new(raw_id).unwrap().
C18_FrameInvariant ==
    /\ pc # "panic"
    /\ (ret.op = "try_recv" /\ ret.val = "Ok") =>
          /\ ret.frame.id \in 0..MaxStdId
          /\ ret.frame.dlc \in 0..8
          /\ Len(ret.frame.data) <= 8

\* C19: receive round trip: when the receive registers hold the encoding of
\* a frame with identifier X < 2^11, DLC d <= 8 and payload B, try_recv
\* returns a frame with identifier X, DLC d and first d payload bytes B.
C19_ReceiveRoundTrip ==
    [][\A frame \in RoundTripFrames :
          (TryRecvReturnsFrame /\ RxHead(fifo) = Encode(frame)) =>
              /\ ret'.op = "try_recv" /\ ret'.val = "Ok"
              /\ ret'.frame.id = frame.id
              /\ ret'.frame.dlc = frame.dlc
              /\ payload(ret'.frame) = payload(frame)
      ]_vars

\* C19 happens: a frame with 5 payload bytes, which span both data words,
\* came back as sent
C19_Witness ==
    /\ pc = "idle"
    /\ ret.op = "try_recv" /\ ret.val = "Ok"
    /\ ret.frame.id = MaxStdId
    /\ ret.frame.dlc = 5
    /\ payload(ret.frame) = <<248, 249, 250, 251, 252>>

\* C20: every bank activated through the handle is associated with the FIFO
\* the handle was bound to at construction, the one try_recv reads, whatever
\* the filter carries; frames accepted by an installed filter never go to
\* the other FIFO.
C20_BankFeedsBoundFifo ==
    /\ \A b \in Banks : bank[b].fact => bank[b].ffa = (fifo = 1)
    /\ rfifo[1 - fifo] = <<>>

\* C20 happens: a handle bound to FIFO 1 installed a filter, and a frame the
\* filter accepted waits in FIFO 1
C20_Witness ==
    /\ pc = "idle"
    /\ fifo = 1
    /\ hist.filter_done
    /\ \E b \in Banks : bank[b].fact /\ bank[b].ffa
    /\ Len(rfifo[1]) = 1
    /\ rfifo[0] = <<>>
    /\ arrivals = 1

====
